---- MODULE Spec2Model ----
(***************************************************************************)
(* Parts-list converter: the part identification engine of                 *)
(* parts_converter.py (PartsListConverter) and component_classifier.py.    *)
(*                                                                         *)
(* Text is modelled as a sequence of one-character strings, so that the    *)
(* regular expressions of the source are evaluated character by character  *)
(* with the backtracking order of Python's re module.                      *)
(***************************************************************************)
EXTENDS Integers, Sequences, FiniteSets, TLC

(***************************************************************************)
(* Bounds of the model.                                                    *)
(***************************************************************************)
\* the rows of a grid
MaxRows == 2
\* the largest panel count passed to map_to_template
MaxPanel == 2
\* the designators of a list handed to extract_reference_designators
MaxDesignators == 2
\* the largest arguments of a direct call of calculate_quantity
MaxRefCount == 16
MaxQty == 40
MaxCalcPanel == 8

(***************************************************************************)
(* Characters and str methods.                                             *)
(***************************************************************************)
UpperSeq == <<"A","B","C","D","E","F","G","H","I","J","K","L","M",
              "N","O","P","Q","R","S","T","U","V","W","X","Y","Z">>
LowerSeq == <<"a","b","c","d","e","f","g","h","i","j","k","l","m",
              "n","o","p","q","r","s","t","u","v","w","x","y","z">>

Range(f) == {f[k] : k \in DOMAIN f}

UpperLetters == Range(UpperSeq)
LowerLetters == Range(LowerSeq)
Letters == UpperLetters \cup LowerLetters
Digits == {"0","1","2","3","4","5","6","7","8","9"}
Whitespace == {" ", "\t", "\n"}

\* str.lower() on one character
LowerChar(c) ==
    IF c \in UpperLetters
    THEN LowerSeq[CHOOSE k \in DOMAIN UpperSeq : UpperSeq[k] = c]
    ELSE c

\* str.upper() on one character
UpperChar(c) ==
    IF c \in LowerLetters
    THEN UpperSeq[CHOOSE k \in DOMAIN LowerSeq : LowerSeq[k] = c]
    ELSE c

\* str.lower()
Lower(s) == [k \in DOMAIN s |-> LowerChar(s[k])]

\* a character class of a pattern compiled with re.IGNORECASE
IgnoreCase(S) == {LowerChar(c) : c \in S} \cup {UpperChar(c) : c \in S}

\* str.strip()
RECURSIVE LStrip(_)
LStrip(s) ==
    IF s # <<>> /\ Head(s) \in Whitespace THEN LStrip(Tail(s)) ELSE s

RECURSIVE RStrip(_)
RStrip(s) ==
    IF s # <<>> /\ s[Len(s)] \in Whitespace
    THEN RStrip(SubSeq(s, 1, Len(s) - 1))
    ELSE s

Strip(s) == RStrip(LStrip(s))

\* 'if text:' a string is true when it is not empty
Truthy(text) == text # <<>>

\* the 'in' operator on strings: sub occurs in s
Contains(s, sub) ==
    \E p \in 1..(Len(s) - Len(sub) + 1) : SubSeq(s, p, p + Len(sub) - 1) = sub

\* ','.join(parts)
RECURSIVE JoinComma(_)
JoinComma(parts) ==
    IF parts = <<>> THEN <<>>
    ELSE IF Len(parts) = 1 THEN parts[1]
    ELSE parts[1] \o <<",">> \o JoinComma(Tail(parts))

\* str.split(',')
RECURSIVE SplitComma(_)
SplitComma(s) ==
    IF \A k \in DOMAIN s : s[k] # ","
    THEN <<s>>
    ELSE LET p == CHOOSE k \in DOMAIN s :
                      s[k] = "," /\ \A j \in 1..(k - 1) : s[j] # ","
         IN <<SubSeq(s, 1, p - 1)>> \o SplitComma(SubSeq(s, p + 1, Len(s)))

(***************************************************************************)
(* The rows a grid is made of (GridSource), three text cells each.  What   *)
(* the converter computes from one row is computed once per row of the     *)
(* pool and looked up in a table afterwards.                               *)
(***************************************************************************)
RowPool == {
    \* the blank row that normalize_dataframe removes
    <<<<>>, <<>>, <<>>>>,
    \* the resistor row of the classifier's test cases
    <<<<"R","K","7","3","B","2","A","T","T","D","1","0","0","2","F">>, <<"R","1",",","R","5">>, <<"K","O","A">>>>,
    \* the microcontroller row of the classifier's test cases
    <<<<"A","T","m","e","g","a","3","2","8","P","-","P","U">>, <<"U","1">>, <<"M","i","c","r","o","c","h","i","p">>>>,
    \* two candidates of confidence 19: 'A1-1111' by the 4th pattern, 'A1A1' by the 2nd
    <<<<"A","1","-","1","1","1","1">>, <<"A","1","A","1">>, <<>>>>,
    \* the same two candidates in the other order
    <<<<"A","1","A","1">>, <<"A","1","-","1","1","1","1">>, <<>>>>,
    \* a manufacturer in two cells, a reference twice
    <<<<"K","O","A">>, <<"R","1",",","R","1">>, <<"M","u","r","a","t","a">>>>,
    \* a header row
    <<<<"i","t","e","m">>, <<"d","e","s","c","r","i","p","t","i","o","n">>, <<"q","u","a","n","t","i","t","y">>>>,
    \* semicolons and a blank between references, a name in lower case
    <<<<"R","1",";","R","5",";"," ","C","1","0">>, <<>>, <<"t","d","k">>>>,
    \* dashes between references
    <<<<"R","1","-","R","5","-","C","1","0">>, <<>>, <<>>>>,
    \* references in lower case
    <<<<"r","1",",","r","2">>, <<>>, <<>>>>,
    \* a connector, a BGA part, a cell with two names
    <<<<"J","1">>, <<"X","B","G","A","1","2">>, <<"M","u","r","a","t","a"," ","K","O","A">>>>,
    \* four references
    <<<<"R","1",",","R","2",",","R","3",",","R","4">>, <<"C","C","0","6","0","3">>, <<"T","D","K">>>>,
    \* no digit anywhere
    <<<<"h","e","l","l","o">>, <<"-">>, <<" "," ">>>> }

(***************************************************************************)
(* Regular expressions (module re).  Every pattern of the source is a      *)
(* sequence of character classes with greedy quantifiers, optionally       *)
(* anchored at the start of the text ('^') and optionally followed by one  *)
(* starred group (?:...)* that ends the pattern:                           *)
(*   [bol, head, rep]   head and rep are sequences of items                *)
(*   [set, lo, hi]      an item: a class with {lo,hi}; hi = -1: no limit   *)
(* The backtracking matcher gives a greedy quantifier as many characters   *)
(* as it can and takes them back one by one until the rest of the pattern  *)
(* matches.  Where a match of items j.. from index i ends depends on j and *)
(* i only, so the ends are tabulated from the last item back to the first: *)
(* 0 stands for no match, any other entry is the index after the match.    *)
(* A starred group that ends the pattern is repeated for as long as it     *)
(* matches: nothing follows it that could make the matcher take an         *)
(* iteration back.                                                         *)
(***************************************************************************)
Cls(S, lo, hi) == [set |-> S, lo |-> lo, hi |-> hi]
One(S)  == Cls(S, 1, 1)
Opt(S)  == Cls(S, 0, 1)
Plus(S) == Cls(S, 1, -1)
Many(S) == Cls(S, 0, -1)

Pattern(items) == [bol |-> FALSE, head |-> items, rep |-> <<>>]
Anchored(items) == [bol |-> TRUE, head |-> items, rep |-> <<>>]
Repeated(items, group) == [bol |-> FALSE, head |-> items, rep |-> group]

\* the least and the greatest element of a set of integers
Least(S) == CHOOSE x \in S : \A y \in S : x <= y
Greatest(S) == CHOOSE x \in S : \A y \in S : x >= y

\* number of consecutive characters of s from index i that are in S
RunLen(S, s, i) ==
    Greatest({n \in 0..(Len(s) - i + 1) : \A j \in i..(i + n - 1) : s[j] \in S})

\* the ends of the matches of one item followed by the items whose ends are
\* in next: the item takes the greatest count after which the rest matches
StepTable(item, s, next) ==
    [i \in 1..(Len(s) + 1) |->
        LET run == RunLen(item.set, s, i)
            kmax == IF item.hi < 0 \/ run < item.hi THEN run ELSE item.hi
            counts == {k \in item.lo..kmax : next[i + k] # 0}
        IN IF counts = {} THEN 0 ELSE next[i + Greatest(counts)]] \o <<>>

\* the ends of the matches of items[1..j] followed by the items whose ends
\* are in next
RECURSIVE Back(_, _, _, _)
Back(items, s, j, next) ==
    IF j = 0 THEN next
    ELSE Back(items, s, j - 1, StepTable(items[j], s, next))

\* for every index i, where the match of the items from i ends
EndTable(items, s) == Back(items, s, Len(items), [i \in 1..(Len(s) + 1) |-> i])

\* the group repeated from index e on for as long as it matches
RECURSIVE Repeat(_, _)
Repeat(groupEnds, e) ==
    IF groupEnds[e] > e THEN Repeat(groupEnds, groupEnds[e]) ELSE e

\* for every index i, where pattern.match(s, i) ends
MatchEnds(pattern, s) ==
    LET headEnds == EndTable(pattern.head, s)
        groupEnds == EndTable(pattern.rep, s)
    IN [i \in 1..(Len(s) + 1) |->
          IF (pattern.bol /\ i # 1) \/ headEnds[i] = 0 THEN 0
          ELSE IF pattern.rep = <<>> THEN headEnds[i]
          ELSE Repeat(groupEnds, headEnds[i])] \o <<>>

\* the matches from index pos on, left to right, none overlapping another
RECURSIVE FindFrom(_, _, _)
FindFrom(ends, s, pos) ==
    LET starts == {q \in pos..Len(s) : ends[q] > q}
    IN IF starts = {} THEN <<>>
       ELSE LET q == Least(starts)
            IN <<SubSeq(s, q, ends[q] - 1)>> \o FindFrom(ends, s, ends[q])

\* re.findall(pattern, s)
FindAll(pattern, s) == FindFrom(MatchEnds(pattern, s), s, 1)

\* re.search(pattern, s) is not None
Search(pattern, s) ==
    LET ends == MatchEnds(pattern, s)
    IN \E q \in 1..Len(s) : ends[q] # 0

\* '.' of a pattern: any character but a line break
Dot == STRING \ {"\n"}

(***************************************************************************)
(* PartsListConverter.detect_part_numbers                                  *)
(***************************************************************************)
\* the pattern table, in declared order, each with its base score
patterns == <<
    [re |-> Pattern(<<Cls(IgnoreCase(UpperLetters), 2, 6), Cls(Digits, 2, 8),
              Many(IgnoreCase(UpperLetters)), Many(Digits),
              Many(IgnoreCase(UpperLetters)), Opt({"-"}),
              Many(IgnoreCase(UpperLetters)), Many(Digits)>>),
     base_score |-> 20],
    [re |-> Pattern(<<Plus(IgnoreCase(UpperLetters)), Plus(Digits),
              Plus(IgnoreCase(UpperLetters)), Plus(Digits),
              Many(IgnoreCase(UpperLetters))>>),
     base_score |-> 15],
    [re |-> Pattern(<<Cls(IgnoreCase(UpperLetters), 3, -1), Cls(Digits, 2, -1),
              Many(IgnoreCase(UpperLetters))>>),
     base_score |-> 10],
    [re |-> Pattern(<<Plus(IgnoreCase(UpperLetters)), Plus(Digits),
              Many(IgnoreCase(UpperLetters)), One({"-"}),
              Many(IgnoreCase(UpperLetters)), Many(Digits)>>),
     base_score |-> 12],
    [re |-> Pattern(<<Plus(IgnoreCase(UpperLetters)), Plus(Digits)>>),
     base_score |-> 5] >>

\* the cells that are skipped as obvious non-part-number fields
SkipLabels == {
    <<"i","t","e","m">>,
    <<"m","a","n","u","f","a","c","t","u","r","e","r">>,
    <<"q","u","a","n","t","i","t","y">>,
    <<"d","e","s","c","r","i","p","t","i","o","n">>,
    <<"r","e","f","e","r","e","n","c","e">> }

\* the letters-numbers-letters test (compiled without IGNORECASE)
MixedStructure == Pattern(<<Cls(UpperLetters, 2, -1), Many(Dot),
                            Cls(Digits, 3, -1), Many(Dot), One(UpperLetters)>>)

\* the length from which a match gets the length bonus
LongerThan == 8

\* current_confidence of one match
ConfidenceOf(base_score, match) ==
    base_score + Len(match)
    + (IF Search(MixedStructure, match) THEN 10 ELSE 0)
    + (IF Len(match) > LongerThan THEN 5 ELSE 0)

\* a cell the loop passes over: blank, or one of the labels
SkippedCell(cell_value) ==
    \/ Strip(cell_value) = <<>>
    \/ Lower(Strip(cell_value)) \in SkipLabels

\* the matches of the k-th pattern in the c-th cell, each with its
\* current_confidence
PatternCandidates(cell_str, c, k) ==
    LET matches == FindAll(patterns[k].re, cell_str)
    IN [m \in DOMAIN matches |->
          [cell |-> c, pattern |-> k, match |-> matches[m],
           confidence |-> ConfidenceOf(patterns[k].base_score, matches[m])]]

\* for pattern, base_score in patterns (from the k-th on)
RECURSIVE CellCandidates(_, _, _)
CellCandidates(cell_str, c, k) ==
    IF k > Len(patterns) THEN <<>>
    ELSE PatternCandidates(cell_str, c, k) \o CellCandidates(cell_str, c, k + 1)

\* for col_idx, cell_value in enumerate(row) (from the c-th cell on): the
\* matches in the order in which the three loops visit them
RECURSIVE RowCandidates(_, _)
RowCandidates(row, c) ==
    IF c > Len(row) THEN <<>>
    ELSE (IF SkippedCell(row[c]) THEN <<>>
          ELSE CellCandidates(Strip(row[c]), c, 1)) \o RowCandidates(row, c + 1)

Candidates(row) == RowCandidates(row, 1)

\* variant of Replaces: a match of equal confidence replaces the best one
ReplacesOnTie(current_confidence, confidence) == current_confidence >= confidence

\* the test that replaces the best match so far
Replaces(current_confidence, confidence) == current_confidence > confidence

\* the row's state before its first match: found_part = None, confidence = 0
NoPart == [found_part |-> <<>>, confidence |-> 0]

\* found_part and confidence after the first n matches
RECURSIVE AfterMatches(_, _)
AfterMatches(cands, n) ==
    IF n = 0 THEN NoPart
    ELSE LET st == AfterMatches(cands, n - 1)
         IN IF Replaces(cands[n].confidence, st.confidence)
            THEN [found_part |-> cands[n].match,
                  confidence |-> cands[n].confidence]
            ELSE st

\* found_part after the last cell of a row, <<>> for None
ScanRow(row) == AfterMatches(Candidates(row), Len(Candidates(row))).found_part

BestPartTable == [row \in RowPool |-> ScanRow(row)]

BestPart(row) == IF row \in RowPool THEN BestPartTable[row] ELSE ScanRow(row)

\* variant of DetectFrom: a pair is appended for every row, found or not
RECURSIVE DetectFromEveryRow(_, _)
DetectFromEveryRow(df, p) ==
    IF p > Len(df) THEN <<>>
    ELSE << [idx |-> df[p].label, part |-> BestPart(df[p].cells)] >>
         \o DetectFromEveryRow(df, p + 1)

\* for idx, row in df.iterrows(): the (idx, found_part) pairs, top to bottom
RECURSIVE DetectFrom(_, _)
DetectFrom(df, p) ==
    IF p > Len(df) THEN <<>>
    ELSE LET found_part == BestPart(df[p].cells)
         IN (IF Truthy(found_part)
             THEN << [idx |-> df[p].label, part |-> found_part] >>
             ELSE <<>>) \o DetectFrom(df, p + 1)

detect_part_numbers(df) == DetectFrom(df, 1)

(***************************************************************************)
(* PartsListConverter.extract_reference_designators, count_references      *)
(***************************************************************************)
RefLetters == {"R","C","L","U","D","Q","J","X","Y","F","T"}

\* the three list patterns, in declared order (compiled with IGNORECASE)
ref_patterns == <<
    Repeated(<<One(IgnoreCase(RefLetters)), Plus(Digits)>>,
             <<One({",", ";"}), Many(Whitespace),
               One(IgnoreCase(RefLetters)), Plus(Digits)>>),
    Repeated(<<One(IgnoreCase(RefLetters)), Plus(Digits)>>,
             <<Many(Whitespace), One({",", ";"}), Many(Whitespace),
               One(IgnoreCase(RefLetters)), Plus(Digits)>>),
    Repeated(<<One(IgnoreCase(RefLetters)), Plus(Digits)>>,
             <<One({"-"}), One(IgnoreCase(RefLetters)), Plus(Digits)>>) >>

\* the pattern that counts the references of a match (no IGNORECASE)
RefTokenCounted == Pattern(<<One(RefLetters), Plus(Digits)>>)

\* the pattern that extracts the references of the best match (IGNORECASE)
RefTokenExtracted == Pattern(<<One(IgnoreCase(RefLetters)), Plus(Digits)>>)

\* the matches of the k-th pattern in a cell, each with its ref_count
RefPatternCandidates(cell_str, c, k) ==
    LET matches == FindAll(ref_patterns[k], cell_str)
    IN [m \in DOMAIN matches |->
          [cell |-> c, pattern |-> k, match |-> matches[m],
           ref_count |-> Len(FindAll(RefTokenCounted, matches[m]))]]

\* for pattern in ref_patterns (from the k-th on)
RECURSIVE RefCellCandidates(_, _, _)
RefCellCandidates(cell_str, c, k) ==
    IF k > Len(ref_patterns) THEN <<>>
    ELSE RefPatternCandidates(cell_str, c, k)
         \o RefCellCandidates(cell_str, c, k + 1)

\* for cell_value in row (from the c-th cell on): the matches in the order
\* in which the three loops visit them
RECURSIVE RefRowCandidates(_, _)
RefRowCandidates(row, c) ==
    IF c > Len(row) THEN <<>>
    ELSE RefCellCandidates(Strip(row[c]), c, 1) \o RefRowCandidates(row, c + 1)

RefCandidates(row) == RefRowCandidates(row, 1)

\* the test that replaces the best match so far
MoreRefs(ref_count, max_refs) == ref_count > max_refs

\* best_match = "", max_refs = 0
NoRefs == [best_match |-> <<>>, max_refs |-> 0]

\* best_match and max_refs after the first n matches
RECURSIVE AfterRefMatches(_, _)
AfterRefMatches(cands, n) ==
    IF n = 0 THEN NoRefs
    ELSE LET st == AfterRefMatches(cands, n - 1)
         IN IF MoreRefs(cands[n].ref_count, st.max_refs)
            THEN [best_match |-> cands[n].match, max_refs |-> cands[n].ref_count]
            ELSE st

\* the best match of a row
BestRefMatch(row) ==
    AfterRefMatches(RefCandidates(row), Len(RefCandidates(row))).best_match

\* the individual references of the best match, as they are joined
IndividualRefs(best_match) == FindAll(RefTokenExtracted, best_match)

\* variant of FormatRefs: the best match is returned as it was found
FormatRefsRaw(best_match) == best_match

\* the value returned for a row: the references of the best match joined
\* with commas, or the empty best match
FormatRefs(best_match) ==
    IF Truthy(best_match) THEN JoinComma(IndividualRefs(best_match))
    ELSE best_match

RefTable == [row \in RowPool |-> FormatRefs(BestRefMatch(row))]

RowReferenceDesignators(row) ==
    IF row \in RowPool THEN RefTable[row] ELSE FormatRefs(BestRefMatch(row))

\* df.iloc[part_idx]: a position counted from 0; a position past the end
\* raises IndexError
IlocInBounds(df, part_idx) == part_idx >= 0 /\ part_idx < Len(df)
Iloc(df, part_idx) == df[part_idx + 1].cells

extract_reference_designators(df, part_idx) ==
    RowReferenceDesignators(Iloc(df, part_idx))

\* [r.strip() for r in ref_string.split(',') if r.strip()]
RECURSIVE NonBlank(_)
NonBlank(parts) ==
    IF parts = <<>> THEN <<>>
    ELSE (IF Truthy(Strip(Head(parts))) THEN <<Strip(Head(parts))>> ELSE <<>>)
         \o NonBlank(Tail(parts))

count_references(ref_string) ==
    IF ~Truthy(ref_string) THEN 0
    ELSE Len(NonBlank(SplitComma(ref_string)))

(***************************************************************************)
(* PartsListConverter.calculate_quantity                                   *)
(***************************************************************************)
\* Optional[int]
None == [some |-> FALSE, val |-> 0]
Some(n) == [some |-> TRUE, val |-> n]

\* int(a / b) for b # 0: true division, then truncation toward zero
Abs(n) == IF n < 0 THEN -n ELSE n
IntTrueDiv(a, b) ==
    IF (a < 0) = (b < 0) THEN Abs(a) \div Abs(b) ELSE -(Abs(a) \div Abs(b))

Max(a, b) == IF a >= b THEN a ELSE b

\* the result of a call: the value returned, or the exception raised
Returned(v) == [raised |-> "", value |-> v]
Raised(e) == [raised |-> e, value |-> 0]

\* variant of PerUnit: the quotient without the lower limit of 1
PerUnitUnclamped(qty, panel_count) ==
    IF panel_count = 0 THEN Raised("ZeroDivisionError")
    ELSE Returned(IntTrueDiv(qty, panel_count))

\* max(1, int(qty / panel_count)); the division raises ZeroDivisionError
PerUnit(qty, panel_count) ==
    IF panel_count = 0 THEN Raised("ZeroDivisionError")
    ELSE Returned(Max(1, IntTrueDiv(qty, panel_count)))

\* variant of calculate_quantity: the reference count is looked at first
calculate_quantity_refs_first(ref_count, required_qty, panel_count) ==
    IF ref_count > 0
    THEN PerUnit(ref_count, panel_count)
    ELSE IF required_qty.some /\ required_qty.val > 0
    THEN PerUnit(required_qty.val, panel_count)
    ELSE Returned(1)

\* variant of calculate_quantity: without the default of 1, the reference
\* count is returned as it is
calculate_quantity_no_default(ref_count, required_qty, panel_count) ==
    IF required_qty.some /\ required_qty.val > 0
    THEN PerUnit(required_qty.val, panel_count)
    ELSE IF ref_count > 0
    THEN PerUnit(ref_count, panel_count)
    ELSE Returned(ref_count)

\* def calculate_quantity(self, ref_count, required_qty, panel_count)
calculate_quantity(ref_count, required_qty, panel_count) ==
    IF required_qty.some /\ required_qty.val > 0
    THEN PerUnit(required_qty.val, panel_count)
    ELSE IF ref_count > 0
    THEN PerUnit(ref_count, panel_count)
    ELSE Returned(1)

(***************************************************************************)
(* PartsListConverter.detect_manufacturers                                 *)
(***************************************************************************)
common_manufacturers == <<
    <<"K","O","A">>,
    <<"M","u","r","a","t","a">>,
    <<"T","D","K">>,
    <<"P","a","n","a","s","o","n","i","c">>,
    <<"V","i","s","h","a","y">>,
    <<"Y","a","g","e","o">>,
    <<"R","o","h","m">>,
    <<"T","a","i","y","o"," ","Y","u","d","e","n">>,
    <<"S","a","m","s","u","n","g">>,
    <<"N","i","c","h","i","c","o","n">>,
    <<"R","u","b","y","c","o","n">>,
    <<"K","E","M","E","T">>,
    <<"A","V","X">>,
    <<"B","o","u","r","n","s">>,
    <<"C","o","i","l","c","r","a","f","t">> >>

\* the first name of the list that occurs in the cell, <<>> when none does
FirstNameIn(cell_str) ==
    LET found == {k \in DOMAIN common_manufacturers :
                     Contains(Lower(cell_str), Lower(common_manufacturers[k]))}
    IN IF found = {} THEN <<>> ELSE common_manufacturers[Least(found)]

\* the entry of the row after one more cell: a cell with a name assigns
\* manufacturers[idx], and the loop over the cells goes on
AfterCell(entry, cell_value) ==
    LET hit == FirstNameIn(Strip(cell_value))
    IN IF hit # <<>> THEN hit ELSE entry

\* for cell_value in row (from the c-th cell on); <<>>: no entry yet
RECURSIVE MfrScanCells(_, _, _)
MfrScanCells(row, c, entry) ==
    IF c > Len(row) THEN entry
    ELSE MfrScanCells(row, c + 1, AfterCell(entry, row[c]))

MfrTable == [row \in RowPool |-> MfrScanCells(row, 1, <<>>)]

RowManufacturer(row) == MfrTable[row]

\* the dictionary: the labels of the rows with a name, each with its name
detect_manufacturers(df) ==
    LET hits == {p \in DOMAIN df : RowManufacturer(df[p].cells) # <<>>}
    IN [l \in {df[p].label : p \in hits} |->
          RowManufacturer(df[CHOOSE p \in hits : df[p].label = l].cells)]

\* manufacturers.get(row_idx, '')
DictGet(manufacturers, row_idx) ==
    IF row_idx \in DOMAIN manufacturers THEN manufacturers[row_idx] ELSE <<>>

(***************************************************************************)
(* ComponentClassifier (component_classifier.py).                          *)
(* A character outside ASCII is written as its code point, "U+62B5".  The  *)
(* keys of a record are written in Latin letters:                          *)
(*   Maker: manufacturer            Hinmei: display name                   *)
(*   DenshiBuhinKataban: part number   HaichiKigou: reference designators  *)
(*   Ko, Goukei: total quantity     JissouSuu, HitsuyouSuu: per-unit qty   *)
(*   JissouKensa: assembly flag     BuhinKataban: package type             *)
(***************************************************************************)
\* a literal of a pattern compiled with IGNORECASE
Word(text) == [k \in DOMAIN text |-> One(IgnoreCase({text[k]}))]

\* the assembly flag 'assemble'
Jissou == <<"U+5B9F","U+88C5">>
SMD == <<"S","M","D">>
DIP == <<"D","I","P">>
\* the package of the BGA family
KumikomiBGA == <<"U+7D44","U+8FBC","(","B","G","A","U+4ED6",")">>

\* the display name of category resistor
ChipTeikou == <<"U+30C1","U+30C3","U+30D7","U+62B5","U+6297">>
\* the display name of category capacitor
ChipCondenser == <<"U+30C1","U+30C3","U+30D7","U+30B3","U+30F3","U+30C7","U+30F3","U+30B5">>
\* the display name of category inductor
ChipInductor == <<"U+30C1","U+30C3","U+30D7","U+30A4","U+30F3","U+30C0","U+30AF","U+30BF">>
\* the display name of category diode
DiodeName == <<"U+30C0","U+30A4","U+30AA","U+30FC","U+30C9">>
\* the display name of category transistor
TransistorName == <<"U+30C8","U+30E9","U+30F3","U+30B8","U+30B9","U+30BF">>
\* the display name of category ic
IcName == <<"I","C">>
\* the display name of category connector
ConnectorName == <<"U+30B3","U+30CD","U+30AF","U+30BF">>
\* the display name of category crystal
CrystalName == <<"U+6C34","U+6676","U+632F","U+52D5","U+5B50">>

\* self.component_patterns, in declared order
component_patterns == <<
    [type |-> "resistor",
     patterns |-> <<
         Anchored(Word(<<"R">>) \o <<Plus(Digits)>>),
         Pattern(Word(<<"R","K">>) \o <<Plus(Digits)>>),
         Pattern(Word(<<"R","C">>) \o <<Plus(Digits)>>),
         Pattern(Word(<<"R","F">>) \o <<Plus(Digits)>>),
         Pattern(Word(<<"R","N">>) \o <<Plus(Digits)>>),
         Pattern(Word(<<"r","e","s","i","s","t","o","r">>)),
         Pattern(Word(<<"U+62B5","U+6297">>)) >>,
     defaults |-> [Hinmei |-> ChipTeikou, BuhinKataban |-> SMD, JissouKensa |-> Jissou]],
    [type |-> "capacitor",
     patterns |-> <<
         Anchored(Word(<<"C">>) \o <<Plus(Digits)>>),
         Pattern(Word(<<"C","C">>) \o <<Plus(Digits)>>),
         Pattern(Word(<<"C","G">>) \o <<Plus(Digits)>>),
         Pattern(Word(<<"c","a","p","a","c","i","t","o","r">>)),
         Pattern(Word(<<"U+30B3","U+30F3","U+30C7","U+30F3","U+30B5">>)) >>,
     defaults |-> [Hinmei |-> ChipCondenser, BuhinKataban |-> SMD, JissouKensa |-> Jissou]],
    [type |-> "inductor",
     patterns |-> <<
         Anchored(Word(<<"L">>) \o <<Plus(Digits)>>),
         Pattern(Word(<<"L","K">>) \o <<Plus(Digits)>>),
         Pattern(Word(<<"i","n","d","u","c","t","o","r">>)),
         Pattern(Word(<<"U+30A4","U+30F3","U+30C0","U+30AF","U+30BF">>)) >>,
     defaults |-> [Hinmei |-> ChipInductor, BuhinKataban |-> SMD, JissouKensa |-> Jissou]],
    [type |-> "diode",
     patterns |-> <<
         Anchored(Word(<<"D">>) \o <<Plus(Digits)>>),
         Pattern(Word(<<"B","A","S">>) \o <<Plus(Digits)>>),
         Pattern(Word(<<"B","A","T">>) \o <<Plus(Digits)>>),
         Pattern(Word(<<"d","i","o","d","e">>)),
         Pattern(Word(<<"U+30C0","U+30A4","U+30AA","U+30FC","U+30C9">>)) >>,
     defaults |-> [Hinmei |-> DiodeName, BuhinKataban |-> SMD, JissouKensa |-> Jissou]],
    [type |-> "transistor",
     patterns |-> <<
         Anchored(Word(<<"Q">>) \o <<Plus(Digits)>>),
         Anchored(Word(<<"T">>) \o <<Plus(Digits)>>),
         Pattern(Word(<<"B","S","S">>) \o <<Plus(Digits)>>),
         Pattern(Word(<<"B","C">>) \o <<Plus(Digits)>>),
         Pattern(Word(<<"t","r","a","n","s","i","s","t","o","r">>)),
         Pattern(Word(<<"U+30C8","U+30E9","U+30F3","U+30B8","U+30B9","U+30BF">>)) >>,
     defaults |-> [Hinmei |-> TransistorName, BuhinKataban |-> SMD, JissouKensa |-> Jissou]],
    [type |-> "ic",
     patterns |-> <<
         Anchored(Word(<<"U">>) \o <<Plus(Digits)>>),
         Anchored(Word(<<"I","C">>) \o <<Plus(Digits)>>),
         Pattern(Word(<<"A","T","m","e","g","a">>)),
         Pattern(Word(<<"P","I","C">>) \o <<Plus(Digits)>>),
         Pattern(Word(<<"S","T","M","3","2">>)),
         Pattern(Word(<<"L","M">>) \o <<Plus(Digits)>>),
         Pattern(Word(<<"T","L">>) \o <<Plus(Digits)>>) >>,
     defaults |-> [Hinmei |-> IcName, BuhinKataban |-> SMD, JissouKensa |-> Jissou]],
    [type |-> "connector",
     patterns |-> <<
         Anchored(Word(<<"J">>) \o <<Plus(Digits)>>),
         Anchored(Word(<<"C","N">>) \o <<Plus(Digits)>>),
         Anchored(Word(<<"P">>) \o <<Plus(Digits)>>),
         Pattern(Word(<<"c","o","n","n","e","c","t","o","r">>)),
         Pattern(Word(<<"U+30B3","U+30CD","U+30AF","U+30BF">>)) >>,
     defaults |-> [Hinmei |-> ConnectorName, BuhinKataban |-> DIP, JissouKensa |-> Jissou]],
    [type |-> "crystal",
     patterns |-> <<
         Anchored(Word(<<"X">>) \o <<Plus(Digits)>>),
         Anchored(Word(<<"Y">>) \o <<Plus(Digits)>>),
         Pattern(Word(<<"c","r","y","s","t","a","l">>)),
         Pattern(Word(<<"U+6C34","U+6676">>)),
         Pattern(Word(<<"U+30AF","U+30EA","U+30B9","U+30BF","U+30EB">>)) >>,
     defaults |-> [Hinmei |-> CrystalName, BuhinKataban |-> SMD, JissouKensa |-> Jissou]] >>

\* self.manufacturer_defaults
manufacturer_defaults == <<
    [name |-> <<"K","O","A">>, Hinmei |-> ChipTeikou],
    [name |-> <<"M","u","r","a","t","a">>, Hinmei |-> ChipCondenser],
    [name |-> <<"T","D","K">>, Hinmei |-> ChipCondenser],
    [name |-> <<"P","a","n","a","s","o","n","i","c">>, Hinmei |-> ChipCondenser],
    [name |-> <<"Y","a","g","e","o">>, Hinmei |-> ChipTeikou],
    [name |-> <<"V","i","s","h","a","y">>, Hinmei |-> ChipTeikou] >>

\* the defaults before any match
ProcessDefaults == [Hinmei |-> <<>>, BuhinKataban |-> SMD, JissouKensa |-> Jissou]

\* the first category, in declared order, one of whose patterns is found in
\* the text; 0 when none is
FirstCategory(text) ==
    LET found == {k \in DOMAIN component_patterns :
                     \E j \in DOMAIN component_patterns[k].patterns :
                         Search(component_patterns[k].patterns[j], text)}
    IN IF found = {} THEN 0 ELSE Least(found)

\* variant of classify_component: the part number is tested before the
\* reference designators
classify_component_part_first(part_number, manufacturer, ref_designator) ==
    LET byRef == IF Truthy(ref_designator)
                 THEN FirstCategory(ref_designator) ELSE 0
        byPart == IF Truthy(part_number)
                  THEN FirstCategory(part_number) ELSE 0
    IN IF byPart # 0 THEN component_patterns[byPart].defaults
       ELSE IF byRef # 0 THEN component_patterns[byRef].defaults
       ELSE IF \E k \in DOMAIN manufacturer_defaults :
                  manufacturer_defaults[k].name = manufacturer
       THEN [ProcessDefaults EXCEPT !.Hinmei =
                manufacturer_defaults[CHOOSE k \in DOMAIN manufacturer_defaults :
                    manufacturer_defaults[k].name = manufacturer].Hinmei]
       ELSE ProcessDefaults

classify_component(part_number, manufacturer, ref_designator) ==
    LET byRef == IF Truthy(ref_designator)
                 THEN FirstCategory(ref_designator) ELSE 0
        byPart == IF Truthy(part_number)
                  THEN FirstCategory(part_number) ELSE 0
    IN IF byRef # 0 THEN component_patterns[byRef].defaults
       ELSE IF byPart # 0 THEN component_patterns[byPart].defaults
       ELSE IF \E k \in DOMAIN manufacturer_defaults :
                  manufacturer_defaults[k].name = manufacturer
       THEN [ProcessDefaults EXCEPT !.Hinmei =
                manufacturer_defaults[CHOOSE k \in DOMAIN manufacturer_defaults :
                    manufacturer_defaults[k].name = manufacturer].Hinmei]
       ELSE ProcessDefaults

\* str.upper()
Upper(s) == [k \in DOMAIN s |-> UpperChar(s[k])]

bga_patterns == { <<"B","G","A">>, <<"F","B","G","A">>, <<"U","B","G","A">>,
                  <<"C","B","G","A">> }
dip_patterns == { <<"D","I","P">>, <<"P","D","I","P">>, <<"S","O","I","C">>,
                  <<"S","O","P">>, <<"S","S","O","P">>, <<"T","S","S","O","P">>,
                  <<"Q","F","P">>, <<"L","Q","F","P">>, <<"T","Q","F","P">> }

detect_package_type(part_number) ==
    IF \E b \in bga_patterns : Contains(Upper(part_number), b) THEN KumikomiBGA
    ELSE IF \E d \in dip_patterns : Contains(Upper(part_number), d) THEN DIP
    ELSE SMD

\* row_data.get(key, '')
Get(row_data, key) == IF key \in DOMAIN row_data THEN row_data[key] ELSE <<>>

\* row_data[key] = value
Put(row_data, key, value) ==
    [x \in DOMAIN row_data \cup {key} |-> IF x = key THEN value ELSE row_data[x]]

\* a field that holds nothing but blanks
Blank(row_data, key) == ~Truthy(Strip(Get(row_data, key)))

\* variant of FillIfBlank: the default is written whatever the field holds
FillAlways(row_data, key, default_value) == Put(row_data, key, default_value)

\* 'if not row_data.get(key, '').strip(): row_data[key] = default_value'
FillIfBlank(row_data, key, default_value) ==
    IF Blank(row_data, key) THEN Put(row_data, key, default_value) ELSE row_data

enhance_component_data(row_data) ==
    LET defaults == classify_component(Get(row_data, "DenshiBuhinKataban"),
                                       Get(row_data, "Maker"),
                                       Get(row_data, "HaichiKigou"))
        r1 == FillIfBlank(row_data, "Hinmei", defaults.Hinmei)
        r2 == FillIfBlank(r1, "BuhinKataban", defaults.BuhinKataban)
        r3 == FillIfBlank(r2, "JissouKensa", defaults.JissouKensa)
    IN FillIfBlank(r3, "BuhinKataban",
                   detect_package_type(Get(row_data, "DenshiBuhinKataban")))

\* the grids of at most MaxRows rows
Grids == UNION {[1..n -> RowPool] : n \in 0..MaxRows}

\* pd.DataFrame(data): row p of the grid gets the label p - 1
Frame(g) == [p \in DOMAIN g |-> [label |-> p - 1, cells |-> g[p]]]

\* the rows that hold a cell other than the empty string, in order
RECURSIVE SelectRows(_, _)
SelectRows(rows, p) ==
    IF p > Len(rows) THEN <<>>
    ELSE (IF \E c \in DOMAIN rows[p].cells : rows[p].cells[c] # <<>>
          THEN <<rows[p]>> ELSE <<>>) \o SelectRows(rows, p + 1)

\* df.loc[~(df == '').all(axis=1)]: the rows with a cell that is not '',
\* each under the label it had
normalize_dataframe(frame) == SelectRows(frame, 1)

\* the panel counts a caller of map_to_template may pass, and the ones the
\* number_input of main lets through (min_value=1)
PanelCounts == {-1, 0} \cup (1..MaxPanel)
WidgetPanelCounts == 1..MaxPanel

(***************************************************************************)
(* State                                                                   *)
(***************************************************************************)
VARIABLES
    pc,             \* "start", "warned", "map", "returned", "raised", or the
                    \* name of a direct call: "calc", "extract", "classify",
                    \* "enhance", "detect"
    grid,           \* the grid of GridSource
    df,             \* the frame map_to_template works on
    panel_count,    \* the argument of map_to_template
    part_numbers,   \* detect_part_numbers(df)
    manufacturers,  \* detect_manufacturers(df)
    idx,            \* the position of the loop of map_to_template in part_numbers
    template_data,  \* the records built so far
    error,          \* the exception that ended map_to_template, "" when none
    calc,           \* the last direct call of calculate_quantity
    call            \* the last direct call of another function of the engine

vars == <<pc, grid, df, panel_count, part_numbers, manufacturers, idx,
          template_data, error, calc, call>>

\* no direct call of a function other than calculate_quantity
NoDirectCall == [fn |-> "", done |-> FALSE]

NoCall == [called |-> FALSE, ref_count |-> 0, required_qty |-> None,
           panel_count |-> 1, result |-> Returned(0)]

Init ==
    /\ pc = "start"
    /\ grid \in Grids
    /\ df = <<>>
    /\ panel_count = 1
    /\ part_numbers = <<>>
    /\ manufacturers = <<>>
    /\ idx = 1
    /\ template_data = <<>>
    /\ error = ""
    /\ calc = NoCall
    /\ call = NoDirectCall

(***************************************************************************)
(* map_to_template                                                         *)
(***************************************************************************)
\* the entry of map_to_template: both detections, then the loop starts
Enter(frame, count) ==
    /\ df' = frame
    /\ panel_count' = count
    /\ part_numbers' = detect_part_numbers(frame)
    /\ manufacturers' = detect_manufacturers(frame)
    /\ idx' = 1
    /\ template_data' = <<>>
    /\ pc' = "map"
    /\ UNCHANGED <<grid, error, calc, call>>

\* main: the extracted frame is empty, a warning is shown and main returns
MainNothingExtracted ==
    /\ pc = "start"
    /\ normalize_dataframe(Frame(grid)) = <<>>
    /\ pc' = "warned"
    /\ UNCHANGED <<grid, df, panel_count, part_numbers, manufacturers, idx,
                   template_data, error, calc, call>>

\* main: the normalized frame and the panel count of the widget are passed
\* to map_to_template
MainConvert ==
    /\ pc = "start"
    /\ normalize_dataframe(Frame(grid)) # <<>>
    /\ \E count \in WidgetPanelCounts :
           Enter(normalize_dataframe(Frame(grid)), count)

\* map_to_template called on a frame as it was built, with any panel count
CoreCall ==
    /\ pc = "start"
    /\ \E count \in PanelCounts : Enter(Frame(grid), count)

\* variant of TemplateRow: the package type is left empty
TemplateRowBlankPackage(no, manufacturer, part_number, ref_designators, qty_1_unit, count) ==
    [No |-> no,
     Maker |-> manufacturer,
     Hinmei |-> <<>>,
     DenshiBuhinKataban |-> part_number,
     HaichiKigou |-> ref_designators,
     Ko |-> qty_1_unit * count,
     JissouSuu |-> qty_1_unit,
     Goukei |-> qty_1_unit * count,
     JissouKensa |-> Jissou,
     BuhinKataban |-> <<>>,
     HitsuyouSuu |-> qty_1_unit]

\* the template row of one (row_idx, part_number) pair
TemplateRow(no, manufacturer, part_number, ref_designators, qty_1_unit, count) ==
    [No |-> no,
     Maker |-> manufacturer,
     Hinmei |-> <<>>,
     DenshiBuhinKataban |-> part_number,
     HaichiKigou |-> ref_designators,
     Ko |-> qty_1_unit * count,
     JissouSuu |-> qty_1_unit,
     Goukei |-> qty_1_unit * count,
     JissouKensa |-> Jissou,
     BuhinKataban |-> SMD,
     HitsuyouSuu |-> qty_1_unit]

\* one iteration of 'for idx, (row_idx, part_number) in enumerate(part_numbers, 1)'
MapRow ==
    /\ pc = "map"
    /\ idx <= Len(part_numbers)
    /\ LET row_idx == part_numbers[idx].idx
           part_number == part_numbers[idx].part
       IN IF ~IlocInBounds(df, row_idx)
          THEN /\ pc' = "raised"
               /\ error' = "IndexError"
               /\ UNCHANGED <<idx, template_data>>
          ELSE LET ref_designators == extract_reference_designators(df, row_idx)
                   ref_count == count_references(ref_designators)
                   manufacturer == DictGet(manufacturers, row_idx)
                   qty == calculate_quantity(ref_count, None, panel_count)
               IN IF qty.raised # ""
                  THEN /\ pc' = "raised"
                       /\ error' = qty.raised
                       /\ UNCHANGED <<idx, template_data>>
                  ELSE /\ template_data' = Append(template_data,
                              enhance_component_data(
                                  TemplateRow(idx, manufacturer, part_number,
                                              ref_designators, qty.value,
                                              panel_count)))
                       /\ idx' = idx + 1
                       /\ UNCHANGED <<pc, error>>
    /\ UNCHANGED <<grid, df, panel_count, part_numbers, manufacturers, calc, call>>

\* variant of MapReturn: a result without records is an error
MapReturnRequiringRecords ==
    /\ pc = "map"
    /\ idx > Len(part_numbers)
    /\ IF template_data = <<>>
       THEN pc' = "raised" /\ error' = "EmptyDataError"
       ELSE pc' = "returned" /\ error' = error
    /\ UNCHANGED <<grid, df, panel_count, part_numbers, manufacturers, idx,
                   template_data, calc, call>>

\* return pd.DataFrame(template_data)
MapReturn ==
    /\ pc = "map"
    /\ idx > Len(part_numbers)
    /\ pc' = "returned"
    /\ UNCHANGED <<grid, df, panel_count, part_numbers, manufacturers, idx,
                   template_data, error, calc, call>>

Next == MainNothingExtracted \/ MainConvert \/ CoreCall \/ MapRow \/ MapReturn

Spec == Init /\ [][Next]_vars

(***************************************************************************)
(* calculate_quantity called on its own                                    *)
(***************************************************************************)
RefCounts == 0..MaxRefCount
Quantities == {None} \cup {Some(n) : n \in (-1)..MaxQty}
CalcPanelCounts == {-1, 0} \cup (1..MaxCalcPanel)

\* the arguments of the call are drawn; the call has not been made
InitCalc ==
    /\ pc = "calc"
    /\ grid = <<>>
    /\ df = <<>>
    /\ panel_count = 1
    /\ part_numbers = <<>>
    /\ manufacturers = <<>>
    /\ idx = 1
    /\ template_data = <<>>
    /\ error = ""
    /\ call = NoDirectCall
    /\ \E ref_count \in RefCounts, required_qty \in Quantities,
          count \in CalcPanelCounts :
           calc = [called |-> FALSE, ref_count |-> ref_count,
                   required_qty |-> required_qty, panel_count |-> count,
                   result |-> Returned(0)]

\* calculate_quantity(ref_count, required_qty, panel_count)
CalculateQuantityCall ==
    /\ pc = "calc"
    /\ ~calc.called
    /\ calc' = [calc EXCEPT !.called = TRUE,
                    !.result = calculate_quantity(calc.ref_count,
                                   calc.required_qty, calc.panel_count)]
    /\ UNCHANGED <<pc, grid, df, panel_count, part_numbers, manufacturers, idx,
                   template_data, error, call>>

NextCalc == CalculateQuantityCall

SpecCalc == InitCalc /\ [][NextCalc]_vars

(***************************************************************************)
(* extract_reference_designators called on its own: the same designators   *)
(* written in one cell in two styles, one call for each writing            *)
(***************************************************************************)
\* designators in upper and in lower case (the patterns are compiled with
\* IGNORECASE)
DesignatorPool == { <<"R","1">>, <<"C","1","0">>, <<"r","5">> }

\* the lists of 1..MaxDesignators designators
DesignatorLists == UNION {[1..n -> DesignatorPool] : n \in 1..MaxDesignators}

\* what stands between two designators: ',', ';', ';' and a blank, '-'
Styles == << <<",">>, <<";">>, <<";"," ">>, <<"-">> >>

\* the designators written with sep between them
RECURSIVE Written(_, _)
Written(designators, sep) ==
    IF Len(designators) = 1 THEN designators[1]
    ELSE designators[1] \o sep \o Written(Tail(designators), sep)

\* the designators and the two writings are drawn; no call has been made
InitExtract ==
    /\ pc = "extract"
    /\ grid = <<>>
    /\ df = <<>>
    /\ panel_count = 1
    /\ part_numbers = <<>>
    /\ manufacturers = <<>>
    /\ idx = 1
    /\ template_data = <<>>
    /\ error = ""
    /\ calc = NoCall
    /\ \E designators \in DesignatorLists :
       \E a \in DOMAIN Styles : \E b \in (a + 1)..Len(Styles) :
           call = [fn |-> "extract_reference_designators",
                   done |-> FALSE,
                   designators |-> designators,
                   cells |-> << Written(designators, Styles[a]),
                                Written(designators, Styles[b]) >>,
                   results |-> <<>>]

\* extract_reference_designators(df, 0) on a frame of one row, whose only
\* cell is the next writing
ExtractReferenceDesignatorsCall ==
    /\ pc = "extract"
    /\ ~call.done
    /\ LET cell == call.cells[Len(call.results) + 1]
           result == extract_reference_designators(Frame(<< <<cell>> >>), 0)
       IN call' = [call EXCEPT !.results = Append(call.results, result),
                               !.done = (Len(call.results) + 1 = Len(call.cells))]
    /\ UNCHANGED <<pc, grid, df, panel_count, part_numbers, manufacturers, idx,
                   template_data, error, calc>>

NextExtract == ExtractReferenceDesignatorsCall

SpecExtract == InitExtract /\ [][NextExtract]_vars

(***************************************************************************)
(* classify_component called on its own                                    *)
(***************************************************************************)
\* part numbers: none, the four of test_classifier, a connector, a
\* transistor, one of two categories (resistor RC.., diode BAT..), one of
\* no category
PartNumberPool == {
    <<>>,
    <<"R","K","7","3","B","2","A","T","T","D","1","0","0","2","F">>,
    <<"C","1","6","0","8","X","7","R","1","H","1","0","4","K","0","8","0","A","A">>,
    <<"A","T","m","e","g","a","3","2","8","P","-","P","U">>,
    <<"B","A","T","5","4","S">>,
    <<"C","N","1","2">>,
    <<"B","C","5","4","7">>,
    <<"R","C","0","6","B","A","T","5","4">>,
    <<"X","Y","Z">> }

\* reference designators: none, one of every category, one of no category,
\* one of two categories (capacitor C1 at the start, resistor RK7)
RefDesignatorPool == {
    <<>>,
    <<"R","1",",","R","5">>,
    <<"C","1",",","C","2">>,
    <<"L","2">>,
    <<"D","1">>,
    <<"T","1">>,
    <<"U","1">>,
    <<"J","1">>,
    <<"Y","1">>,
    <<"A","R","1">>,
    <<"C","1"," ","R","K","7">> }

\* manufacturers: none, names of the table, a name of the table in lower
\* case, a name that is not in the table
ManufacturerPool == {
    <<>>,
    <<"K","O","A">>,
    <<"M","u","r","a","t","a">>,
    <<"k","o","a">>,
    <<"M","i","c","r","o","c","h","i","p">> }

\* the arguments of the call are drawn; the call has not been made
InitClassify ==
    /\ pc = "classify"
    /\ grid = <<>>
    /\ df = <<>>
    /\ panel_count = 1
    /\ part_numbers = <<>>
    /\ manufacturers = <<>>
    /\ idx = 1
    /\ template_data = <<>>
    /\ error = ""
    /\ calc = NoCall
    /\ \E part_number \in PartNumberPool, manufacturer \in ManufacturerPool,
          ref_designator \in RefDesignatorPool :
           call = [fn |-> "classify_component",
                   done |-> FALSE,
                   part_number |-> part_number,
                   manufacturer |-> manufacturer,
                   ref_designator |-> ref_designator,
                   result |-> ProcessDefaults]

\* classify_component(part_number, manufacturer, ref_designator)
ClassifyComponentCall ==
    /\ pc = "classify"
    /\ ~call.done
    /\ call' = [call EXCEPT !.done = TRUE,
                    !.result = classify_component(call.part_number,
                                   call.manufacturer, call.ref_designator)]
    /\ UNCHANGED <<pc, grid, df, panel_count, part_numbers, manufacturers, idx,
                   template_data, error, calc>>

NextClassify == ClassifyComponentCall

SpecClassify == InitClassify /\ [][NextClassify]_vars

(***************************************************************************)
(* enhance_component_data called on its own                                *)
(***************************************************************************)
\* the assembly flag 'inspect'
Kensa == <<"U+691C","U+67FB">>

\* what a record may hold under a key that enhance_component_data fills:
\* no such key, the empty string, a blank, a text
FieldStates(text) == {None, Some(<<>>), Some(<<" ">>), Some(text)}

\* the dictionary with the key, or without it
Field(key, state) ==
    IF state.some THEN [x \in {key} |-> state.val] ELSE [x \in {} |-> <<>>]

\* the record is drawn; the call has not been made
InitEnhance ==
    /\ pc = "enhance"
    /\ grid = <<>>
    /\ df = <<>>
    /\ panel_count = 1
    /\ part_numbers = <<>>
    /\ manufacturers = <<>>
    /\ idx = 1
    /\ template_data = <<>>
    /\ error = ""
    /\ calc = NoCall
    /\ \E part_number \in {<<>>, <<"C","N","1","2">>, <<"X","B","G","A","1","2">>},
          manufacturer \in {<<>>, <<"K","O","A">>},
          ref_designator \in {<<>>, <<"R","1",",","R","5">>, <<"J","1">>},
          display_name \in FieldStates(<<"X">>),
          package \in FieldStates(DIP),
          flag \in FieldStates(Kensa) :
           call = [fn |-> "enhance_component_data",
                   done |-> FALSE,
                   row_data |-> [No |-> 1,
                                 Maker |-> manufacturer,
                                 DenshiBuhinKataban |-> part_number,
                                 HaichiKigou |-> ref_designator,
                                 Goukei |-> 2]
                                @@ Field("Hinmei", display_name)
                                @@ Field("BuhinKataban", package)
                                @@ Field("JissouKensa", flag),
                   result |-> <<>>]

\* enhance_component_data(row_data)
EnhanceComponentDataCall ==
    /\ pc = "enhance"
    /\ ~call.done
    /\ call' = [call EXCEPT !.done = TRUE,
                    !.result = enhance_component_data(call.row_data)]
    /\ UNCHANGED <<pc, grid, df, panel_count, part_numbers, manufacturers, idx,
                   template_data, error, calc>>

NextEnhance == EnhanceComponentDataCall

SpecEnhance == InitEnhance /\ [][NextEnhance]_vars

(***************************************************************************)
(* detect_part_numbers called on its own, on a frame of one row            *)
(***************************************************************************)
\* cells: texts in upper and in lower case with and without the letters-
\* numbers-letters structure, of more and of less than 8 characters, a
\* skipped label, an empty cell
DetectCellPool == {
    <<>>,
    <<"i","t","e","m">>,
    <<"a","b","c","d","1","2","3","e">>,
    <<"A","B","C","D","1","2","3","E">>,
    <<"A","B","C","D","E","F","1","2","3","4","5">>,
    <<"A","B","1","2","3","4","5","6","C">>,
    <<"A","B","1","2","3","4","5","C">>,
    <<"A","1","-","1","1","1","1">>,
    <<"a","b","1","2">>,
    <<"R","1",",","R","5">> }

\* the row is drawn; the call has not been made
InitDetect ==
    /\ pc = "detect"
    /\ grid = <<>>
    /\ df = <<>>
    /\ panel_count = 1
    /\ part_numbers = <<>>
    /\ manufacturers = <<>>
    /\ idx = 1
    /\ template_data = <<>>
    /\ error = ""
    /\ calc = NoCall
    /\ \E left \in DetectCellPool, right \in DetectCellPool :
           call = [fn |-> "detect_part_numbers",
                   done |-> FALSE,
                   row |-> <<left, right>>,
                   result |-> <<>>]

\* detect_part_numbers(df) on the frame of the row
DetectPartNumbersCall ==
    /\ pc = "detect"
    /\ ~call.done
    /\ call' = [call EXCEPT !.done = TRUE,
                    !.result = detect_part_numbers(Frame(<<call.row>>))]
    /\ UNCHANGED <<pc, grid, df, panel_count, part_numbers, manufacturers, idx,
                   template_data, error, calc>>

NextDetect == DetectPartNumbersCall

SpecDetect == InitDetect /\ [][NextDetect]_vars

(***************************************************************************)
(* Properties                                                              *)
(***************************************************************************)
\* map_to_template has been entered
Entered == pc \in {"map", "returned", "raised"}

\* the row that detect_part_numbers scanned under a label
LabelledRow(label) == df[CHOOSE p \in DOMAIN df : df[p].label = label].cells

\* C1: for every grid and every panel_count >= 1, every record emitted by
\* map_to_template has a per-unit quantity (JissouSuu) >= 1 and a total
\* quantity (Goukei) equal to the per-unit quantity times panel_count.
QuantityInvariant ==
    panel_count >= 1 =>
        \A i \in DOMAIN template_data :
            /\ template_data[i].JissouSuu >= 1
            /\ template_data[i].Goukei = template_data[i].JissouSuu * panel_count

\* two records on two panels: four references give 2 per unit and 4 in
\* total, one reference gives 1 per unit (the lower limit) and 2 in total
QuantityInvariantWitness ==
    /\ pc = "returned"
    /\ panel_count = 2
    /\ \E i, j \in DOMAIN template_data :
          /\ count_references(template_data[i].HaichiKigou) = 4
          /\ template_data[i].JissouSuu = 2
          /\ template_data[i].Goukei = 4
          /\ count_references(template_data[j].HaichiKigou) = 1
          /\ template_data[j].JissouSuu = 1
          /\ template_data[j].Goukei = 2

\* the rule of the quantity calculator, with the quotient rounded down
FloorRule(ref_count, explicit_qty, count) ==
    IF explicit_qty.some /\ explicit_qty.val > 0
    THEN Max(1, explicit_qty.val \div count)
    ELSE IF ref_count > 0
    THEN Max(1, ref_count \div count)
    ELSE 1

\* C2: for all ref_count >= 0, explicit_qty None or an integer, and
\* panel_count >= 1, calculate_quantity returns max(1, floor(explicit_qty /
\* panel_count)) when explicit_qty is provided and > 0, otherwise max(1,
\* floor(ref_count / panel_count)) when ref_count > 0, otherwise 1; (16, None,
\* 8) gives 2, (0, 40, 8) gives 5, (0, None, 8) gives 1; an explicit quantity
\* > 0 takes precedence over the reference count.
QuantityRule ==
    (calc.called /\ calc.ref_count >= 0 /\ calc.panel_count >= 1) =>
        /\ calc.result =
               Returned(FloorRule(calc.ref_count, calc.required_qty,
                                  calc.panel_count))
        /\ (calc.ref_count = 16 /\ calc.required_qty = None
                /\ calc.panel_count = 8) => calc.result = Returned(2)
        /\ (calc.ref_count = 0 /\ calc.required_qty = Some(40)
                /\ calc.panel_count = 8) => calc.result = Returned(5)
        /\ (calc.ref_count = 0 /\ calc.required_qty = None
                /\ calc.panel_count = 8) => calc.result = Returned(1)
        /\ (calc.required_qty.some /\ calc.required_qty.val > 0) =>
               calc.result =
                   Returned(Max(1, calc.required_qty.val \div calc.panel_count))

\* an explicit quantity of 40 wins over 16 references on 8 panels
QuantityRuleWitness ==
    /\ calc.called
    /\ calc.ref_count = 16
    /\ calc.required_qty = Some(40)
    /\ calc.panel_count = 8
    /\ calc.result = Returned(5)

\* C3, as the specification states it: with panel_count = 1 the per-unit
\* quantity equals the explicit quantity when one is provided, and otherwise
\* the reference count, unchanged, for every reference count and every
\* explicit quantity.
SinglePanelUnchanged ==
    (calc.called /\ calc.panel_count = 1) =>
        calc.result = Returned(IF calc.required_qty.some
                               THEN calc.required_qty.val
                               ELSE calc.ref_count)

\* C3, as the code has it: with panel_count = 1 the per-unit quantity equals
\* the explicit quantity when one is provided and is > 0, otherwise the
\* reference count when it is > 0, and otherwise 1.
SinglePanelRule ==
    (calc.called /\ calc.panel_count = 1) =>
        calc.result = Returned(IF calc.required_qty.some /\ calc.required_qty.val > 0
                               THEN calc.required_qty.val
                               ELSE IF calc.ref_count > 0
                               THEN calc.ref_count
                               ELSE 1)

\* one panel, no reference and an explicit quantity of 0: the result is 1
SinglePanelRuleWitness ==
    /\ calc.called
    /\ calc.panel_count = 1
    /\ calc.ref_count = 0
    /\ calc.required_qty = Some(0)
    /\ calc.result = Returned(1)

\* C4: a panel_count < 1 passed to map_to_template is rejected with an
\* InvalidConfiguration failure before any quantity is calculated: no record
\* is ever built with it, and the call ends with that failure.
InvalidPanelCountRejected ==
    (Entered /\ panel_count < 1) =>
        /\ template_data = <<>>
        /\ pc \in {"returned", "raised"} =>
               (pc = "raised" /\ error = "InvalidConfiguration")

\* C5: map_to_template applied to an empty grid (zero rows) completes without
\* error and produces zero records: nothing is detected, the loop has nothing
\* to do, and the only step left is the return.
EmptyGridNoRecords ==
    (Entered /\ df = <<>>) =>
        /\ part_numbers = <<>>
        /\ idx > Len(part_numbers)
        /\ template_data = <<>>
        /\ pc # "raised"
        /\ error = ""

\* map_to_template has returned from the empty grid
EmptyGridNoRecordsWitness ==
    /\ pc = "returned"
    /\ grid = <<>>
    /\ df = <<>>
    /\ template_data = <<>>

\* the rows in which a cell yields a match of a pattern
HasMatchTable == [row \in RowPool |-> Candidates(row) # <<>>]

\* C6: detect_part_numbers returns at most one (row, part_number) pair per
\* grid row: a row in which no cell yields a pattern match contributes no
\* pair, a row with one or more matches contributes exactly one pair, whose
\* part number is not empty; every pair is the pair of a row.
AtMostOnePairPerRow ==
    Entered =>
        /\ \A i \in DOMAIN part_numbers :
               \E p \in DOMAIN df : df[p].label = part_numbers[i].idx
        /\ \A p \in DOMAIN df :
               LET pairs == {i \in DOMAIN part_numbers :
                                part_numbers[i].idx = df[p].label}
               IN IF HasMatchTable[df[p].cells]
                  THEN /\ Cardinality(pairs) = 1
                       /\ \A i \in pairs : part_numbers[i].part # <<>>
                  ELSE pairs = {}

\* two rows, one with a match and one without: one pair
AtMostOnePairPerRowWitness ==
    /\ Entered
    /\ Len(df) = 2
    /\ \E p, q \in DOMAIN df :
          HasMatchTable[df[p].cells] /\ ~HasMatchTable[df[q].cells]
    /\ Len(part_numbers) = 1

\* C7: map_to_template emits exactly one record per detected (row,
\* part_number) pair, in top-to-bottom grid order, the i-th record with No = i
\* and the part number of the i-th pair; a call with a panel_count >= 1 ends
\* with these records.
OneRecordPerPair ==
    (pc \in {"returned", "raised"} /\ panel_count >= 1) =>
        /\ pc = "returned"
        /\ Len(template_data) = Len(part_numbers)
        /\ \A i \in DOMAIN template_data :
               /\ template_data[i].No = i
               /\ template_data[i].DenshiBuhinKataban = part_numbers[i].part
        /\ \A i, j \in DOMAIN part_numbers :
               i < j => part_numbers[i].idx < part_numbers[j].idx

\* the greatest confidence of the matches of a row, and the matches that
\* have it
TopConfidence(cands) == Greatest({cands[n].confidence : n \in DOMAIN cands})
Ties(cands) == {n \in DOMAIN cands : cands[n].confidence = TopConfidence(cands)}

\* among the matches of the greatest confidence: the first in pattern order,
\* then the one in the leftmost cell, then the leftmost in the cell
PatternFirst(cands) ==
    CHOOSE n \in Ties(cands) : \A m \in Ties(cands) :
        \/ cands[n].pattern < cands[m].pattern
        \/ /\ cands[n].pattern = cands[m].pattern
           /\ cands[n].cell < cands[m].cell
        \/ /\ cands[n].pattern = cands[m].pattern
           /\ cands[n].cell = cands[m].cell
           /\ n <= m

\* among the matches of the greatest confidence: the one in the leftmost
\* cell, then the first in pattern order, then the leftmost in the cell
CellFirst(cands) ==
    CHOOSE n \in Ties(cands) : \A m \in Ties(cands) :
        \/ cands[n].cell < cands[m].cell
        \/ /\ cands[n].cell = cands[m].cell
           /\ cands[n].pattern < cands[m].pattern
        \/ /\ cands[n].cell = cands[m].cell
           /\ cands[n].pattern = cands[m].pattern
           /\ n <= m

PatternFirstTable ==
    [row \in RowPool |->
        IF Candidates(row) = <<>> THEN <<>>
        ELSE Candidates(row)[PatternFirst(Candidates(row))].match]

CellFirstTable ==
    [row \in RowPool |->
        IF Candidates(row) = <<>> THEN <<>>
        ELSE Candidates(row)[CellFirst(Candidates(row))].match]

\* the number of matches of a row that share the greatest confidence
TiesTable ==
    [row \in RowPool |->
        IF Candidates(row) = <<>> THEN 0
        ELSE Cardinality(Ties(Candidates(row)))]

FirstHitTable ==
    [row \in RowPool |->
        LET hits == {c \in DOMAIN row : FirstNameIn(Strip(row[c])) # <<>>}
        IN IF hits = {} THEN <<>>
           ELSE FirstNameIn(Strip(row[Least(hits)]))]

\* C9: the manufacturer of a row is the one of the first hit of a left-to-
\* right scan of its cells (within a cell, the first name of the list that
\* occurs in it, whatever the case); later cells of the row do not change it;
\* a row in which no cell holds a known name has no manufacturer.
FirstManufacturerWins ==
    Entered =>
        \A p \in DOMAIN df :
            DictGet(manufacturers, df[p].label) = FirstHitTable[df[p].cells]

\* the characters between the designators of a list
Separators == {",", ";", "-"} \cup Whitespace

\* <letter><digits>, not empty
IsDesignator(r) ==
    /\ Len(r) >= 2
    /\ r[1] \in IgnoreCase(RefLetters)
    /\ \A k \in 2..Len(r) : r[k] \in Digits

\* the concatenation of the parts
RECURSIVE Flatten(_)
Flatten(parts) ==
    IF parts = <<>> THEN <<>> ELSE Head(parts) \o Flatten(Tail(parts))

\* the winning matched span of a row
WinningSpanTable == [row \in RowPool |-> BestRefMatch(row)]

\* C10, as the specification states it: the string returned by
\* extract_reference_designators is either empty or a comma-separated list of
\* non-empty <letter><digits> designators in which no designator occurs twice.
DesignatorsUnique ==
    \A i \in DOMAIN template_data :
        LET refs == SplitComma(template_data[i].HaichiKigou)
        IN \/ template_data[i].HaichiKigou = <<>>
           \/ /\ \A k \in DOMAIN refs : IsDesignator(refs[k])
              /\ \A j, k \in DOMAIN refs : j # k => refs[j] # refs[k]

\* C10, as the code has it: the string is either empty or a comma-separated
\* list of non-empty <letter><digits> designators, which are the designators
\* of the winning matched span in their order of appearance, one entry for
\* every occurrence.
DesignatorsInOrder ==
    \A i \in DOMAIN template_data :
        LET refs == SplitComma(template_data[i].HaichiKigou)
            span == WinningSpanTable[Iloc(df, part_numbers[i].idx)]
        IN \/ template_data[i].HaichiKigou = <<>> /\ span = <<>>
           \/ /\ \A k \in DOMAIN refs : IsDesignator(refs[k])
              /\ Flatten(refs) = SelectSeq(span, LAMBDA c : c \notin Separators)

\* the span 'R1,R1' gives 'R1,R1'
DesignatorsInOrderWitness ==
    /\ pc = "returned"
    /\ \E i \in DOMAIN template_data :
          /\ WinningSpanTable[Iloc(df, part_numbers[i].idx)]
                 = <<"R","1",",","R","1">>
          /\ template_data[i].HaichiKigou = <<"R","1",",","R","1">>

\* C11: extract_reference_designators is independent of the separator style:
\* for the same sequence of designators written in one cell with ';'
\* (optionally followed by a blank), with ',' or with '-' between them, it
\* returns the same string, the designators joined with commas in the order
\* in which they are written.
SeparatorIndependent ==
    (call.fn = "extract_reference_designators" /\ call.done) =>
        /\ call.results[1] = call.results[2]
        /\ call.results[1] = JoinComma(call.designators)

\* the categories one of whose patterns is found in the text
CategoriesOf(text) ==
    {k \in DOMAIN component_patterns :
        \E j \in DOMAIN component_patterns[k].patterns :
            Search(component_patterns[k].patterns[j], text)}

\* the category that decides a call: the first one, in declared order, of
\* the reference designators, else the first one of the part number, else 0
DecidingCategory(part_number, ref_designator) ==
    IF CategoriesOf(ref_designator) # {}
    THEN Least(CategoriesOf(ref_designator))
    ELSE IF CategoriesOf(part_number) # {}
    THEN Least(CategoriesOf(part_number))
    ELSE 0

\* the display name the table of manufacturers gives, <<>> for a name that
\* is not in it
TableName(manufacturer) ==
    IF manufacturer \in {<<"K","O","A">>, <<"Y","a","g","e","o">>,
                         <<"V","i","s","h","a","y">>}
    THEN ChipTeikou
    ELSE IF manufacturer \in {<<"M","u","r","a","t","a">>, <<"T","D","K">>,
                              <<"P","a","n","a","s","o","n","i","c">>}
    THEN ChipCondenser
    ELSE <<>>

\* C12: classify_component applies a strict priority, first match wins: the
\* category of the reference designators decides whatever the part number and
\* the manufacturer are; otherwise the category of the part number; otherwise
\* a manufacturer of the table sets the display name only (package SMD,
\* assembly flag as by default); otherwise the defaults (empty display name,
\* SMD, assembly flag) are returned.  Within a tier the categories are tried
\* in declared order, and a connector is the only one that gives package DIP.
ClassifyPriority ==
    (call.fn = "classify_component" /\ call.done) =>
        LET category == DecidingCategory(call.part_number, call.ref_designator)
        IN /\ category # 0 =>
                  call.result = component_patterns[category].defaults
           /\ category = 0 =>
                  call.result = [Hinmei |-> TableName(call.manufacturer),
                                 BuhinKataban |-> SMD,
                                 JissouKensa |-> Jissou]
           /\ call.result.BuhinKataban = DIP <=>
                  (category # 0 /\ component_patterns[category].type = "connector")
           /\ call.result.BuhinKataban \in {SMD, DIP}
           /\ call.result.JissouKensa = Jissou

\* designators of an IC with the part number of a resistor and a
\* manufacturer of capacitors: the result is the one of an IC
ClassifyPriorityWitness ==
    /\ call.fn = "classify_component"
    /\ call.done
    /\ call.ref_designator = <<"U","1">>
    /\ call.part_number = <<"R","K","7","3","B","2","A","T","T","D","1","0","0","2","F">>
    /\ call.manufacturer = <<"M","u","r","a","t","a">>
    /\ call.result = [Hinmei |-> IcName, BuhinKataban |-> SMD,
                      JissouKensa |-> Jissou]

\* the keys that enhance_component_data fills
FilledKeys == {"Hinmei", "BuhinKataban", "JissouKensa"}

\* C13: enhance_component_data never overwrites a field that already holds a
\* non-empty (non-whitespace) value: for each of the keys display name,
\* package type and assembly flag, a value that was not blank before the call
\* is the same after it, whatever the part number, the manufacturer and the
\* designators are; every other key of the record is left unchanged.
NeverOverwrites ==
    (call.fn = "enhance_component_data" /\ call.done) =>
        /\ \A key \in FilledKeys \cap DOMAIN call.row_data :
               Strip(call.row_data[key]) # <<>> =>
                   call.result[key] = call.row_data[key]
        /\ \A key \in DOMAIN call.row_data \ FilledKeys :
               /\ key \in DOMAIN call.result
               /\ call.result[key] = call.row_data[key]
        /\ DOMAIN call.result \subseteq DOMAIN call.row_data \cup FilledKeys

\* a connector with BGA in its part number: the display name 'X' and the
\* assembly flag 'inspect' that the record held are kept, the blank package
\* is filled
NeverOverwritesWitness ==
    /\ call.fn = "enhance_component_data"
    /\ call.done
    /\ call.row_data.HaichiKigou = <<"J","1">>
    /\ "Hinmei" \in DOMAIN call.row_data
    /\ call.row_data.Hinmei = <<"X">>
    /\ "JissouKensa" \in DOMAIN call.row_data
    /\ call.row_data.JissouKensa = Kensa
    /\ "BuhinKataban" \in DOMAIN call.row_data
    /\ call.row_data.BuhinKataban = <<" ">>
    /\ call.result.Hinmei = <<"X">>
    /\ call.result.JissouKensa = Kensa
    /\ call.result.BuhinKataban = DIP

\* the row of the end-to-end scenario
ResistorRow ==
    << <<"R","K","7","3","B","2","A","T","T","D","1","0","0","2","F">>,
       <<"R","1",",","R","5">>,
       <<"K","O","A">> >>

\* C14: map_to_template on a grid whose single row has the cells
\* 'RK73B2ATTD1002F', 'R1,R5', 'KOA' emits one record with the part number
\* 'RK73B2ATTD1002F' (the whole cell text), the reference designators
\* 'R1,R5', the manufacturer 'KOA', the display name of a chip resistor and
\* the package SMD.
ResistorRowRecord ==
    (pc = "returned" /\ grid = <<ResistorRow>>) =>
        /\ Len(template_data) = 1
        /\ template_data[1].DenshiBuhinKataban = ResistorRow[1]
        /\ template_data[1].HaichiKigou = <<"R","1",",","R","5">>
        /\ template_data[1].Maker = <<"K","O","A">>
        /\ template_data[1].Hinmei = ChipTeikou
        /\ template_data[1].BuhinKataban = SMD

\* a run of two letters, later three digits, later a letter, the letters
\* taken from the set
HasMixedStructure(match, letters) ==
    \E i, j, k \in DOMAIN match :
        /\ i + 1 < j
        /\ j + 2 < k
        /\ {match[i], match[i + 1]} \subseteq letters
        /\ {match[j], match[j + 1], match[j + 2]} \subseteq Digits
        /\ match[k] \in letters

\* base priority + length, + 10 for the mixed structure, + 5 for a length
\* of more than 8
StatedConfidence(cand, letters) ==
    patterns[cand.pattern].base_score + Len(cand.match)
    + (IF HasMixedStructure(cand.match, letters) THEN 10 ELSE 0)
    + (IF Len(cand.match) > 8 THEN 5 ELSE 0)

\* the part number of the row is a match of the greatest stated confidence
SelectsGreatest(row, result, letters) ==
    LET cands == Candidates(row)
        greatest == Greatest({StatedConfidence(cands[n], letters) :
                                 n \in DOMAIN cands})
    IN IF cands = <<>> THEN result = <<>>
       ELSE /\ Len(result) = 1
            /\ \E n \in DOMAIN cands :
                   /\ StatedConfidence(cands[n], letters) = greatest
                   /\ result[1].part = cands[n].match

\* C15: the confidence of every candidate match of a row is base priority +
\* length, + 10 if the match has the structure letter run, 3+ digits, letter,
\* + 5 if it is longer than 8 characters; the part number selected for the
\* row has the greatest confidence over the candidates of all cells that are
\* not skipped and all patterns.  (The matches are found whatever the case
\* of their letters, and so is the structure.)
ConfidenceAsStated ==
    (call.fn = "detect_part_numbers" /\ call.done) =>
        /\ \A n \in DOMAIN Candidates(call.row) :
               Candidates(call.row)[n].confidence =
                   StatedConfidence(Candidates(call.row)[n], Letters)
        /\ SelectsGreatest(call.row, call.result, Letters)

\* the number of <letter><digits> tokens of a match: the letters of the
\* set that a digit follows
TokenCount(match, letters) ==
    Cardinality({i \in 1..(Len(match) - 1) :
                    match[i] \in letters /\ match[i + 1] \in Digits})

\* the first found of the matches of a row with the greatest number of
\* tokens, <<>> for a row without a match
FirstGreatest(row, letters) ==
    LET cands == RefCandidates(row)
        greatest == Greatest({TokenCount(cands[n].match, letters) :
                                 n \in DOMAIN cands})
    IN IF cands = <<>> THEN <<>>
       ELSE cands[Least({n \in DOMAIN cands :
                TokenCount(cands[n].match, letters) = greatest})].match

\* the letters of a token are matched whatever their case
StatedSpanTable ==
    [row \in RowPool |-> FirstGreatest(row, IgnoreCase(RefLetters))]

\* C16: extract_reference_designators builds its result from the single
\* match with the greatest number of <letter><digits> tokens among the
\* matches of the three patterns in all cells of the row; of several matches
\* with that number the first found is kept (cells left to right, patterns in
\* declared order within a cell); nothing of another cell or another match
\* is merged into the result; a row with no match yields the empty string.
MaxTokenMatchWins ==
    \A i \in DOMAIN template_data :
        LET refs == SplitComma(template_data[i].HaichiKigou)
            span == StatedSpanTable[Iloc(df, part_numbers[i].idx)]
        IN IF span = <<>>
           THEN template_data[i].HaichiKigou = <<>>
           ELSE /\ \A k \in DOMAIN refs : IsDesignator(refs[k])
                /\ Flatten(refs) = SelectSeq(span, LAMBDA c : c \notin Separators)

\* C17: for every record emitted by map_to_template, the reference
\* designators and the manufacturer are the ones of the grid row in which the
\* part number of the record was detected, also when the labels of the rows
\* differ from their positions (normalize_dataframe drops empty rows without
\* renumbering); the label given by detect_part_numbers is never used to
\* read another row, nor a position past the end of the grid.
FieldsFromRowOfPart ==
    /\ error # "IndexError"
    /\ \A i \in DOMAIN template_data :
           LET row == LabelledRow(part_numbers[i].idx)
           IN /\ template_data[i].HaichiKigou = RefTable[row]
              /\ template_data[i].Maker = MfrTable[row]

\* C18: every record emitted by map_to_template has the package type 'SMD'
\* and the assembly flag of an assembled part, whatever the category of the
\* row (the defaults of a connector hold DIP) and whatever BGA or DIP token
\* the part number holds: the record is filled with both before
\* enhance_component_data runs, which fills empty fields only.
PackageAlwaysSMD ==
    \A i \in DOMAIN template_data :
        /\ template_data[i].BuhinKataban = SMD
        /\ template_data[i].JissouKensa = Jissou

\* a returned record of a connector (designator J1) whose part number holds
\* BGA: the defaults of its category say DIP, detect_package_type says BGA,
\* the record says SMD
PackageAlwaysSMDWitness ==
    /\ pc = "returned"
    /\ \E i \in DOMAIN template_data :
           /\ template_data[i].HaichiKigou = <<"J", "1">>
           /\ template_data[i].DenshiBuhinKataban = <<"X", "B", "G", "A", "1", "2">>
           /\ classify_component(template_data[i].DenshiBuhinKataban,
                                 template_data[i].Maker,
                                 template_data[i].HaichiKigou).BuhinKataban = DIP
           /\ detect_package_type(template_data[i].DenshiBuhinKataban) = KumikomiBGA
           /\ template_data[i].BuhinKataban = SMD

====
